---- MODULE Spec2Model ----
(***************************************************************************)
(* Model of ads/opctl/backend/marketplace/local_marketplace.py:            *)
(* LocalMarketplaceOperatorBackend, the local deployment of a marketplace  *)
(* Helm listing (_run_with_python), its helpers (_run_helm_list,           *)
(* _check_if_chart_already_exist, _run_helm_install,                       *)
(* _save_helm_value_to_yaml, _delete_temp_file, _wait_for_pod_ready) and   *)
(* the licence agreement walk (check_prerequisites).                       *)
(*                                                                         *)
(* One call is in progress at a time (the class is single threaded).  The  *)
(* outside world (marketplace service, helm, the cluster, the user at the  *)
(* prompt) is the nondeterministic part: what a call to it returns is      *)
(* drawn with \E at the step that makes the call.                          *)
(*                                                                         *)
(* Time: elapsed stands for time.time() - start_time of the poll loop; it  *)
(* advances by sleep_time in time.sleep and a pod fetch takes no time.     *)
(***************************************************************************)
EXTENDS Integers, Sequences, FiniteSets, TLC

\* ------------------------------------------------------------------ bounds
\* how many calls (deploy or agreement walk) one behaviour makes
MaxRuns == 2
\* longest list of required agreements the marketplace returns
MaxAgreements == 2
\* longest condition list of a pod status
MaxConditions == 1
\* most pods one fetch returns
MaxPods == 2
\* most keyword arguments _run_helm_install is given
MaxFlags == 3

\* ------------------------------------------------- constants of the program
timeout_seconds == 10 * 60
sleep_time == 20

\* ------------------------------------------------------------ input domains
AgreementIds == {"agr1", "agr2"}
\* names a helm release can have; helm_app_name is the one the run deploys
ReleaseNames == {"demo", "Demo"}
helm_app_name == "demo"
ConditionTypes == {"Ready", "PodScheduled"}
ConditionStatuses == {"True", "False"}

SeqsUpTo(S, n) == UNION {[1..k -> S] : k \in 0..n}

Conditions == [type : ConditionTypes, status : ConditionStatuses]
\* a condition list holds each condition type at most once
ConditionLists == {c \in SeqsUpTo(Conditions, MaxConditions) :
                      \A i, j \in DOMAIN c : c[i].type = c[j].type => i = j}
\* a V1Pod, reduced to status.conditions; the client leaves conditions None
\* when the API object has no condition list yet (NoPod)
NoPod == [conditions_is_none |-> TRUE, conditions |-> <<>>]
Pods == [conditions_is_none : {FALSE}, conditions : ConditionLists] \cup {NoPod}
\* the pods behind the first one of a fetch: one that is ready, one that is not
OtherPods == {[conditions_is_none |-> FALSE,
               conditions |-> <<[type |-> "Ready", status |-> s]>>] : s \in ConditionStatuses}
ItemLists == {<<>>} \cup {<<p>> \o rest : p \in Pods, rest \in SeqsUpTo(OtherPods, MaxPods - 1)}
\* what v1.list_namespaced_pod can do: fail, or return .items
FetchResults == {[ok |-> FALSE, items |-> <<>>]} \cup [ok : {TRUE}, items : ItemLists]

\* keyword arguments of _run_helm_install: a dict, so (key, value) pairs in
\* insertion order with each key once
FlagKeys == {"version", "namespace", "values"}
FlagValues == {"1.0.0", "ns1", "values.yaml"}
KwargsDomain == {kw \in SeqsUpTo(FlagKeys \X FlagValues, MaxFlags) :
                    \A i, j \in DOMAIN kw : kw[i][1] = kw[j][1] => i = j}

\* the orders in which helm can print the releases of the namespace
Orderings(S) == {s \in [1..Cardinality(S) -> S] : \A i, j \in DOMAIN s : s[i] = s[j] => i = j}

VARIABLES
    \* ---- the outside world
    agreement_summaries,   \* marketplace.list_agreements(...).data, the ids in list order
    accepted_agreements,   \* ids the marketplace has recorded as accepted
    answer,                \* what the user answers at click.confirm, per agreement
    releases,              \* helm releases present in the namespace
    temp_file,             \* TRUE while the file at this call's override_value_path exists
    environ,               \* TRUE once OCI_CLI_AUTH and OCI_CLI_PROFILE are set
    \* ---- the call in progress
    op,                    \* "none", "deploy" (_run_with_python), "gate" (check_prerequisites),
                           \* "run" (run() that never reached _run_with_python)
    pc,                    \* position in the call
    runs,                  \* calls started so far
    exit_code,             \* what the call returned: "unset", "0", "-1", "None"
    raised,                \* exception that left the call, "none" if none
    is_helm,               \* isinstance(listing_details, HelmMarketplaceListingDetails)
    run_result,            \* how run() ended after _run_with_python returned:
                           \* "unset", "returned", "RuntimeError"
    \* ---- _run_helm_install
    installation_type,     \* "unset", "install", "upgrade"
    returncode,            \* helm_install_status.returncode, -1 before the command ran
    helm_list,             \* what helm list gave: its exit code and the NAME column it printed
    helm_list_calls,
    helm_install_calls,
    kwargs,                \* **kwargs of _run_helm_install, as (key, value) pairs in order
    helm_cmd,              \* the argument vector of the install/upgrade command, <<>> before
    \* ---- _wait_for_pod_ready
    pod,                   \* .items[0] of the fetch of this pass of the loop
    last_pod,              \* .items[-1] of the same fetch (pod itself when there is one item)
    fetched,               \* what the last fetch gave: "none", "pod", "empty", "error"
    elapsed,               \* time.time() - start_time
    fetch_calls,
    sleep_calls,
    \* ---- check_prerequisites
    accepted_agreement_ids,\* the list built at lines 215-217
    idx,                   \* position of the for loop in agreement_summaries
    calls                  \* the calls this walk made to the browser, the prompt and the
                           \* marketplace's create_accepted_agreement, in order

vars == <<agreement_summaries, accepted_agreements, answer, releases, temp_file, environ,
          op, pc, runs, exit_code, raised, is_helm, run_result,
          installation_type, returncode, helm_list, helm_list_calls, helm_install_calls,
          kwargs, helm_cmd,
          pod, last_pod, fetched, elapsed, fetch_calls, sleep_calls,
          accepted_agreement_ids, idx, calls>>

world == <<agreement_summaries, accepted_agreements, answer, releases>>
helm_vars == <<installation_type, returncode, helm_list, helm_list_calls, helm_install_calls,
               kwargs, helm_cmd>>
\* no helm list has run yet in this call
NoHelmList == [returncode |-> -1, stdout |-> <<>>]
poll_vars == <<pod, last_pod, fetched, elapsed, fetch_calls, sleep_calls>>
gate_vars == <<accepted_agreement_ids, idx, calls>>

Init ==
    /\ agreement_summaries \in SeqsUpTo(AgreementIds, MaxAgreements)
    /\ accepted_agreements \in SUBSET AgreementIds
    /\ answer \in [AgreementIds -> BOOLEAN]
    /\ releases \in SUBSET ReleaseNames
    /\ temp_file = FALSE
    /\ environ = FALSE
    /\ op = "none"
    /\ pc = "idle"
    /\ runs = 0
    /\ exit_code = "unset"
    /\ raised = "none"
    /\ is_helm = FALSE
    /\ run_result = "unset"
    /\ installation_type = "unset"
    /\ returncode = -1
    /\ helm_list = NoHelmList
    /\ helm_list_calls = 0
    /\ helm_install_calls = 0
    /\ kwargs = <<>>
    /\ helm_cmd = <<>>
    /\ pod = NoPod
    /\ last_pod = NoPod
    /\ fetched = "none"
    /\ elapsed = 0
    /\ fetch_calls = 0
    /\ sleep_calls = 0
    /\ accepted_agreement_ids = {}
    /\ idx = 0
    /\ calls = <<>>

\* a call has ended, by return or by exception
Ended == pc \in {"returned", "raised"}
\* the caller has its answer: run() is over (an exception of _run_with_python
\* passes through run()), or check_prerequisites is
Over ==
    \/ op = "deploy" /\ (pc = "raised" \/ run_result # "unset")
    \/ op \in {"gate", "run"} /\ Ended
CanStart == (pc = "idle" \/ Over) /\ runs < MaxRuns

\* the per-call state of a fresh call
FreshCall ==
    /\ runs' = runs + 1
    /\ run_result' = "unset"
    /\ installation_type' = "unset"
    /\ returncode' = -1
    /\ helm_list' = NoHelmList
    /\ helm_list_calls' = 0
    /\ helm_install_calls' = 0
    /\ kwargs' = <<>>
    /\ helm_cmd' = <<>>
    /\ pod' = NoPod
    /\ last_pod' = NoPod
    /\ fetched' = "none"
    /\ elapsed' = 0
    /\ fetch_calls' = 0
    /\ sleep_calls' = 0
    /\ calls' = <<>>

Return(code) == pc' = "returned" /\ exit_code' = code /\ raised' = "none"
Raise(exc) == pc' = "raised" /\ raised' = exc /\ exit_code' = "unset"
Goto(l) == pc' = l /\ exit_code' = "unset" /\ raised' = "none"

\* ---------------------------------------------------------------- run
\* lines 323-331: a runtime type that is not in _RUNTIME_RUN_MAP
run_unsupported_runtime ==
    /\ CanStart
    /\ FreshCall
    /\ op' = "run"
    /\ Raise("RuntimeError")
    /\ is_helm' = FALSE
    /\ temp_file' = FALSE
    /\ accepted_agreement_ids' = {}
    /\ idx' = 0
    /\ UNCHANGED <<world, environ>>

\* line 345 as a truth test: None passes for success
is_failure_truthy(code) == code \notin {"0", "None"}

\* line 345
is_failure(code) == code # "0"

\* lines 343-349: what run() does with the value _run_with_python returned
run_check_exit_code ==
    /\ op = "deploy" /\ pc = "returned" /\ run_result = "unset"
    /\ run_result' = IF is_failure(exit_code) THEN "RuntimeError" ELSE "returned"
    /\ UNCHANGED <<world, temp_file, environ, op, pc, runs, exit_code, raised, is_helm,
                   helm_vars, poll_vars, gate_vars>>

\* the isinstance test of line 294 left out: every listing is deployed
run_with_python_any_listing ==
    /\ CanStart
    /\ FreshCall
    /\ op' = "deploy"
    /\ is_helm' \in BOOLEAN
    /\ Goto("save")
    /\ temp_file' = FALSE
    /\ accepted_agreement_ids' = {}
    /\ idx' = 0
    /\ UNCHANGED <<world, environ>>

\* ------------------------------------------------------- _run_with_python
\* run() lines 333-343 call it for a supported runtime type.
\* lines 275-294: build the runner, get the listing details, test their kind;
\* a listing that is not a Helm listing falls off the end of the function.
\* check_prerequisites is not called here (line 288 is commented out).
run_with_python ==
    /\ CanStart
    /\ FreshCall
    /\ op' = "deploy"
    /\ is_helm' \in BOOLEAN
    /\ IF is_helm' THEN Goto("save") ELSE Return("None")
    /\ temp_file' = FALSE   \* this call's path is a new one: nothing is there yet
    /\ accepted_agreement_ids' = {}
    /\ idx' = 0
    /\ UNCHANGED <<world, environ>>

\* ------------------------------------------------------ _set_kubernete_env
\* the two assignments left out: the environment stays as it was
set_kubernete_env_skipped(env) == env

\* lines 102-104: OCI_CLI_AUTH and OCI_CLI_PROFILE are assigned, whatever
\* was there before
set_kubernete_env(env) == TRUE

\* line 303: the chart of the call
chart == "oci://iad.ocir.io/idogsu2ylimg/feature-store-data-plane-api-helidon/feature-store-dp-api"
\* listing_details.namespace and the path _save_helm_value_to_yaml returned
namespace == "ns1"
override_value_path == "values.yaml"
\* lines 304-308: the keyword arguments _run_with_python passes
run_helm_install_kwargs ==
    <<<<"version", "1.0.0">>, <<"namespace", namespace>>, <<"values", override_value_path>>>>

\* the command built without asking helm list first
save_helm_value_to_yaml_skip_probe ==
    /\ op = "deploy" /\ pc = "save"
    /\ temp_file' = TRUE
    /\ kwargs' = run_helm_install_kwargs
    /\ Goto("helm_cmd")
    /\ UNCHANGED <<world, environ, op, runs, is_helm, run_result, installation_type, returncode,
                   helm_list, helm_list_calls, helm_install_calls, helm_cmd, poll_vars, gate_vars>>

\* lines 298-300 and 137-143: write the override values to a fresh values.yaml;
\* its path goes into the keyword arguments of lines 304-308
save_helm_value_to_yaml ==
    /\ op = "deploy" /\ pc = "save"
    /\ temp_file' = TRUE
    /\ kwargs' = run_helm_install_kwargs
    /\ Goto("helm_list")
    /\ UNCHANGED <<world, environ, op, runs, is_helm, run_result, installation_type, returncode,
                   helm_list, helm_list_calls, helm_install_calls, helm_cmd, poll_vars, gate_vars>>

\* ------------------------------------------------------- _run_helm_install
\* what `helm list --namespace ns` can print with exit code 0: nothing at
\* all, or the header line and one line per release; only the NAME column is
\* kept, so the output is the sequence <<"NAME", name, name, ...>>
HelmListOutputs(rel) == {<<"NAME">> \o s : s \in Orderings(rel)} \cup {<<>>}

\* line 122: (helm_list['NAME'] == name).any(), on the parsed table
RECURSIVE any_equal(_, _)
any_equal(column, name) ==
    IF column = <<>> THEN FALSE
    ELSE IF Head(column) = name THEN TRUE
    ELSE any_equal(Tail(column), name)

\* line 127 with the two verbs swapped
InstallationTypeSwapped(exists) == IF ~exists THEN "upgrade" ELSE "install"

\* line 127
InstallationType(exists) == IF ~exists THEN "install" ELSE "upgrade"

\* a helm list that failed read as "the chart is not there"
check_if_chart_already_exist_none_as_absent ==
    /\ op = "deploy" /\ pc = "helm_list"
    /\ environ' = set_kubernete_env(environ)
    /\ helm_list_calls' = helm_list_calls + 1
    /\ \/ /\ helm_list' = [returncode |-> 1, stdout |-> <<>>]
          /\ installation_type' = InstallationType(FALSE)
          /\ Goto("helm_cmd")
       \/ \E stdout \in HelmListOutputs(releases) :
             /\ helm_list' = [returncode |-> 0, stdout |-> stdout]
             /\ IF stdout = <<>>
                THEN Raise("EmptyDataError") /\ installation_type' = installation_type
                ELSE /\ installation_type' = InstallationType(any_equal(Tail(stdout), helm_app_name))
                     /\ Goto("helm_cmd")
    /\ UNCHANGED <<world, temp_file, op, runs, is_helm, run_result, returncode, helm_install_calls,
                   kwargs, helm_cmd, poll_vars, gate_vars>>

\* lines 125-127, 117-122 and 106-115: set the environment, run helm list,
\* parse it and choose the verb.  A non-zero exit code makes _run_helm_list
\* return None, and None['NAME'] raises TypeError; pd.read_csv raises
\* EmptyDataError on an empty output.
check_if_chart_already_exist ==
    /\ op = "deploy" /\ pc = "helm_list"
    /\ environ' = set_kubernete_env(environ)
    /\ helm_list_calls' = helm_list_calls + 1
    /\ \/ \* helm list exits non-zero: _run_helm_list returns None
          /\ helm_list' = [returncode |-> 1, stdout |-> <<>>]
          /\ Raise("TypeError") /\ installation_type' = installation_type
       \/ \* helm list exits 0
          \E stdout \in HelmListOutputs(releases) :
             /\ helm_list' = [returncode |-> 0, stdout |-> stdout]
             /\ IF stdout = <<>>
                THEN Raise("EmptyDataError") /\ installation_type' = installation_type
                ELSE /\ installation_type' = InstallationType(any_equal(Tail(stdout), helm_app_name))
                     /\ Goto("helm_cmd")
    /\ UNCHANGED <<world, temp_file, op, runs, is_helm, run_result, returncode, helm_install_calls,
                   kwargs, helm_cmd, poll_vars, gate_vars>>

\* each pair put in front of the flags collected so far
RECURSIVE flags_prepended(_)
flags_prepended(items) ==
    IF items = <<>> THEN <<>>
    ELSE flags_prepended(Tail(items)) \o <<"--" \o Head(items)[1], Head(items)[2]>>

\* lines 129-131: flags.extend([f"--{key}", f"{value}"]) for each item of
\* kwargs in order (the values are strings, which f"{value}" leaves as they are)
RECURSIVE flags(_)
flags(items) ==
    IF items = <<>> THEN <<>>
    ELSE <<"--" \o Head(items)[1], Head(items)[2]>> \o flags(Tail(items))

\* line 133
build_helm_cmd(verb, name, chrt, kw) == <<"helm", verb, name, chrt>> \o flags(kw)

\* subprocess.run(helm_cmd, check=True): a non-zero exit code raises
run_helm_install_check ==
    /\ op = "deploy" /\ pc = "helm_cmd"
    /\ helm_install_calls' = helm_install_calls + 1
    /\ helm_cmd' = build_helm_cmd(installation_type, helm_app_name, chart, kwargs)
    /\ \E rc \in {0, 1} :
          /\ returncode' = rc
          /\ releases' = IF rc = 0 THEN releases \cup {helm_app_name} ELSE releases
          /\ IF rc = 0 THEN Goto("delete") ELSE Raise("CalledProcessError")
    /\ UNCHANGED <<agreement_summaries, accepted_agreements, answer, temp_file, environ,
                   op, runs, is_helm, run_result, installation_type, helm_list, helm_list_calls,
                   kwargs, poll_vars, gate_vars>>

\* lines 129-135: subprocess.run(helm_cmd) without check=True returns the
\* CompletedProcess whatever the exit code; a successful install or upgrade
\* leaves the release in the namespace
run_helm_install ==
    /\ op = "deploy" /\ pc = "helm_cmd"
    /\ helm_install_calls' = helm_install_calls + 1
    /\ helm_cmd' = build_helm_cmd(installation_type, helm_app_name, chart, kwargs)
    /\ \E rc \in {0, 1} :
          /\ returncode' = rc
          /\ releases' = IF rc = 0 THEN releases \cup {helm_app_name} ELSE releases
    /\ Goto("delete")
    /\ UNCHANGED <<agreement_summaries, accepted_agreements, answer, temp_file, environ,
                   op, runs, is_helm, run_result, installation_type, helm_list, helm_list_calls,
                   kwargs, poll_vars, gate_vars>>

\* line 311 left out: the file stays
delete_temp_file_skipped ==
    /\ op = "deploy" /\ pc = "delete"
    /\ temp_file' = temp_file
    /\ Goto("status")
    /\ UNCHANGED <<world, environ, op, runs, is_helm, run_result, helm_vars, poll_vars, gate_vars>>

\* line 311 and 145-150
delete_temp_file ==
    /\ op = "deploy" /\ pc = "delete"
    /\ temp_file' = FALSE
    /\ Goto("status")
    /\ UNCHANGED <<world, environ, op, runs, is_helm, run_result, helm_vars, poll_vars, gate_vars>>

\* line 312: the test that decides between polling and returning -1
PollAlways(rc) == TRUE
InstallSucceeded(rc) == rc = 0

\* lines 312-317
check_install_status ==
    /\ op = "deploy" /\ pc = "status"
    /\ IF InstallSucceeded(returncode) THEN Goto("wait") ELSE Return("-1")
    /\ UNCHANGED <<world, temp_file, environ, op, runs, is_helm, run_result, helm_vars, poll_vars, gate_vars>>

\* ----------------------------------------------------- _wait_for_pod_ready
\* the loop entered at its sleep: the first request comes one interval late
wait_for_pod_ready_sleep_first ==
    /\ op = "deploy" /\ pc = "wait"
    /\ environ' = set_kubernete_env(environ)
    /\ elapsed' = 0
    /\ Goto("sleep")
    /\ UNCHANGED <<world, temp_file, op, runs, is_helm, run_result, helm_vars, pod, last_pod,
                   fetched, fetch_calls, sleep_calls, gate_vars>>

\* lines 154-166: set the environment, load the kube config, start the clock
wait_for_pod_ready ==
    /\ op = "deploy" /\ pc = "wait"
    /\ environ' = set_kubernete_env(environ)
    /\ elapsed' = 0
    /\ Goto("fetch")
    /\ UNCHANGED <<world, temp_file, op, runs, is_helm, run_result, helm_vars, pod, last_pod, fetched,
                   fetch_calls, sleep_calls, gate_vars>>

\* lines 158-162: the first condition of type "Ready" decides
RECURSIVE is_pod_ready_scan(_)
is_pod_ready_scan(conditions) ==
    IF conditions = <<>> THEN FALSE
    ELSE IF Head(conditions).type = "Ready" THEN Head(conditions).status = "True"
    ELSE is_pod_ready_scan(Tail(conditions))

\* the status compared with "true" instead of "True": never ready
is_pod_ready_lowercase(p) ==
    \E i \in DOMAIN p.conditions :
        p.conditions[i].type = "Ready" /\ p.conditions[i].status = "true"

is_pod_ready(p) == is_pod_ready_scan(p.conditions)

\* the deadline taken in minutes where the clock counts seconds
loop_body_minutes(p, e) ==
    IF is_pod_ready(p) THEN "return"
    ELSE IF e - 0 >= timeout_seconds * 60 THEN "break"
    ELSE "sleep"

\* the deadline tested ahead of readiness
loop_body_deadline_first(p, e) ==
    IF e - 0 >= timeout_seconds THEN "break"
    ELSE IF is_pod_ready(p) THEN "return"
    ELSE "sleep"

\* lines 172-178, what the loop body does with the pod it fetched:
\* "return" (line 173), "break" (line 176) or "sleep" (line 178)
loop_body(p, e) ==
    IF is_pod_ready(p) THEN "return"
    ELSE IF e - 0 >= timeout_seconds THEN "break"
    ELSE "sleep"

\* lines 168-178, one pass of the loop on what the request gave.  A failed
\* request raises ApiException out of the loop, .items[0] of an empty list
\* raises IndexError, and iterating conditions = None raises TypeError.
loop_pass_retry(r, e) ==
    IF ~r.ok THEN "sleep"
    ELSE IF r.items = <<>> THEN "IndexError"
    ELSE IF r.items[1].conditions_is_none THEN "TypeError"
    ELSE loop_body(r.items[1], e)

\* readiness asked of every matching pod instead of the first
loop_pass_all_pods(r, e) ==
    IF ~r.ok THEN "ApiException"
    ELSE IF r.items = <<>> THEN "IndexError"
    ELSE IF r.items[1].conditions_is_none THEN "TypeError"
    ELSE IF \A i \in DOMAIN r.items : is_pod_ready(r.items[i]) THEN "return"
    ELSE IF e - 0 >= timeout_seconds THEN "break"
    ELSE "sleep"

loop_pass(r, e) ==
    IF ~r.ok THEN "ApiException"
    ELSE IF r.items = <<>> THEN "IndexError"
    ELSE IF r.items[1].conditions_is_none THEN "TypeError"
    ELSE loop_body(r.items[1], e)

\* lines 167-177: the request and the pass of the loop up to the sleep
list_namespaced_pod ==
    /\ op = "deploy" /\ pc = "fetch"
    /\ fetch_calls' = fetch_calls + 1
    /\ \E r \in FetchResults :
          /\ fetched' = IF ~r.ok THEN "error" ELSE IF r.items = <<>> THEN "empty" ELSE "pod"
          /\ pod' = IF r.ok /\ r.items # <<>> THEN r.items[1] ELSE pod
          /\ last_pod' = IF r.ok /\ r.items # <<>> THEN r.items[Len(r.items)] ELSE last_pod
          /\ CASE loop_pass(r, elapsed) = "return" -> Return("0")
               [] loop_pass(r, elapsed) = "break" -> Return("-1")
               [] loop_pass(r, elapsed) = "sleep" -> Goto("sleep")
               [] OTHER -> Raise(loop_pass(r, elapsed))
    /\ UNCHANGED <<world, temp_file, environ, op, runs, is_helm, run_result, helm_vars, elapsed, sleep_calls,
                   gate_vars>>

\* a sleep of two intervals
sleep_two_intervals ==
    /\ op = "deploy" /\ pc = "sleep"
    /\ elapsed' = elapsed + 2 * sleep_time
    /\ sleep_calls' = sleep_calls + 1
    /\ pod' = NoPod
    /\ last_pod' = NoPod
    /\ fetched' = "none"
    /\ Goto("fetch")
    /\ UNCHANGED <<world, temp_file, environ, op, runs, is_helm, run_result, helm_vars, fetch_calls, gate_vars>>

\* line 178.  The pass is over: pod is not read again before the next pass
\* rebinds it, so the model forgets it here.
sleep ==
    /\ op = "deploy" /\ pc = "sleep"
    /\ elapsed' = elapsed + sleep_time
    /\ sleep_calls' = sleep_calls + 1
    /\ pod' = NoPod
    /\ last_pod' = NoPod
    /\ fetched' = "none"
    /\ Goto("fetch")
    /\ UNCHANGED <<world, temp_file, environ, op, runs, is_helm, run_result, helm_vars, fetch_calls, gate_vars>>

\* ------------------------------------------------------ check_prerequisites
\* lines 195-217: read the listing, the accepted agreements and the required
\* agreements, and collect the accepted ids
check_prerequisites ==
    /\ CanStart
    /\ FreshCall
    /\ op' = "gate"
    /\ accepted_agreement_ids' = accepted_agreements
    /\ idx' = 1
    /\ is_helm' = FALSE
    /\ Goto("agreement")
    /\ UNCHANGED <<world, temp_file, environ>>

\* lines 195-197: the listing the walk is about
listing_id == "listing1"
compartment_id == "compartment1"
package_version == "1.0.0"
\* agreement.signature of marketplace.get_agreement(...).data, per agreement
signature == [a \in AgreementIds |-> IF a = "agr1" THEN "sig1" ELSE "sig2"]

\* an entry of calls: webbrowser.open (line 232), click.confirm (line 234)
Interaction(call, id, a) ==
    [call |-> call, agreement_id |-> id, answer |-> a, listing_id |-> "",
     compartment_id |-> "", signature |-> "", package_version |-> ""]

\* lines 245-254 without the signature
create_accepted_agreement_details_no_signature(id) ==
    [call |-> "record", agreement_id |-> id, answer |-> TRUE, listing_id |-> listing_id,
     compartment_id |-> compartment_id, signature |-> "", package_version |-> package_version]

\* lines 245-254: what is passed to marketplace.create_accepted_agreement
create_accepted_agreement_details(id) ==
    [call |-> "record", agreement_id |-> id, answer |-> TRUE, listing_id |-> listing_id,
     compartment_id |-> compartment_id, signature |-> signature[id],
     package_version |-> package_version]

\* line 223 with the test dropped
needs_confirmation_always(id, ids) == TRUE

\* line 223
needs_confirmation(id, ids) == id \notin ids

\* lines 238-257 with the rejection ignored
on_answer_always_record(a) == "record"

\* lines 238-257: a "no" raises, a "yes" records the acceptance
on_answer(a) == IF ~a THEN "raise" ELSE "record"

\* a rejection that takes back what the walk recorded before it
agreement_loop_rollback ==
    /\ op = "gate" /\ pc = "agreement"
    /\ IF idx > Len(agreement_summaries)
       THEN Return("None") /\ UNCHANGED <<idx, accepted_agreements, calls>>
       ELSE LET id == agreement_summaries[idx]
                asked == <<Interaction("open", id, FALSE), Interaction("confirm", id, answer[id])>>
            IN
            IF ~needs_confirmation(id, accepted_agreement_ids)
            THEN Goto("agreement") /\ idx' = idx + 1 /\ UNCHANGED <<accepted_agreements, calls>>
            ELSE IF on_answer(answer[id]) = "raise"
            THEN /\ calls' = calls \o asked
                 /\ accepted_agreements' = accepted_agreement_ids
                 /\ Raise("Exception") /\ UNCHANGED idx
            ELSE /\ calls' = calls \o asked \o <<create_accepted_agreement_details(id)>>
                 /\ accepted_agreements' = accepted_agreements \cup {id}
                 /\ idx' = idx + 1
                 /\ Goto("agreement")
    /\ UNCHANGED <<agreement_summaries, answer, releases, temp_file, environ, op, runs, is_helm, run_result,
                   helm_vars, poll_vars, accepted_agreement_ids>>

\* lines 219-262: one pass of the for loop, or its end
agreement_loop ==
    /\ op = "gate" /\ pc = "agreement"
    /\ IF idx > Len(agreement_summaries)
       THEN Return("None") /\ UNCHANGED <<idx, accepted_agreements, calls>>
       ELSE LET id == agreement_summaries[idx]
                asked == <<Interaction("open", id, FALSE), Interaction("confirm", id, answer[id])>>
            IN
            IF ~needs_confirmation(id, accepted_agreement_ids)
            THEN Goto("agreement") /\ idx' = idx + 1 /\ UNCHANGED <<accepted_agreements, calls>>
            ELSE IF on_answer(answer[id]) = "raise"
            THEN /\ calls' = calls \o asked
                 /\ Raise("Exception") /\ UNCHANGED <<idx, accepted_agreements>>
            ELSE /\ calls' = calls \o asked \o <<create_accepted_agreement_details(id)>>
                 /\ accepted_agreements' = accepted_agreements \cup {id}
                 /\ idx' = idx + 1
                 /\ Goto("agreement")
    /\ UNCHANGED <<agreement_summaries, answer, releases, temp_file, environ, op, runs, is_helm, run_result,
                   helm_vars, poll_vars, accepted_agreement_ids>>

Next ==
    \/ run_unsupported_runtime
    \/ run_check_exit_code
    \/ run_with_python
    \/ save_helm_value_to_yaml
    \/ check_if_chart_already_exist
    \/ run_helm_install
    \/ delete_temp_file
    \/ check_install_status
    \/ wait_for_pod_ready
    \/ list_namespaced_pod
    \/ sleep
    \/ check_prerequisites
    \/ agreement_loop

Spec == Init /\ [][Next]_vars

\* _run_helm_install's command line as a function of its arguments: the
\* keyword arguments and the verb are drawn from their domains and lines
\* 129-133 are applied to them
ArgvInit ==
    /\ agreement_summaries = <<>>
    /\ accepted_agreements = {}
    /\ answer = [a \in AgreementIds |-> FALSE]
    /\ releases = {}
    /\ temp_file = FALSE
    /\ environ = TRUE
    /\ op = "argv"
    /\ pc = "build"
    /\ runs = 1
    /\ exit_code = "unset"
    /\ raised = "none"
    /\ is_helm = TRUE
    /\ run_result = "unset"
    /\ installation_type \in {"install", "upgrade"}
    /\ returncode = -1
    /\ helm_list = NoHelmList
    /\ helm_list_calls = 0
    /\ helm_install_calls = 0
    /\ kwargs \in KwargsDomain
    /\ helm_cmd = <<>>
    /\ pod = NoPod
    /\ last_pod = NoPod
    /\ fetched = "none"
    /\ elapsed = 0
    /\ fetch_calls = 0
    /\ sleep_calls = 0
    /\ accepted_agreement_ids = {}
    /\ idx = 0
    /\ calls = <<>>

\* lines 129-133
helm_cmd_built ==
    /\ op = "argv" /\ pc = "build"
    /\ helm_cmd' = build_helm_cmd(installation_type, helm_app_name, chart, kwargs)
    /\ pc' = "built"
    /\ UNCHANGED <<world, temp_file, environ, op, runs, exit_code, raised, is_helm, run_result,
                   installation_type, returncode, helm_list, helm_list_calls, helm_install_calls,
                   kwargs, poll_vars, gate_vars>>

ArgvNext == helm_cmd_built

ArgvSpec == ArgvInit /\ [][ArgvNext]_vars

\* The poll loop is straight-line code in one thread: once entered it keeps
\* taking its next step (time.sleep returns, the request returns or raises).
LiveSpec == Spec /\ WF_vars(wait_for_pod_ready \/ list_namespaced_pod \/ sleep)

\* ======================================================================
\* Properties
\* ======================================================================
InDeploy == op = "deploy"
\* the poller has been entered (line 313)
Polling == InDeploy /\ pc \in {"wait", "fetch", "sleep"}
\* required agreements the marketplace has no acceptance for
Pending == {agreement_summaries[i] : i \in DOMAIN agreement_summaries} \ accepted_agreements
\* the readiness predicate of the design: a condition of type Ready with status True
HasReadyTrue(p) ==
    \E i \in DOMAIN p.conditions :
        p.conditions[i].type = "Ready" /\ p.conditions[i].status = "True"

\* C1: in a deploy whose install/upgrade command returned a non-zero exit
\* code the poller is never entered, no pod is ever fetched, and when the
\* deploy has ended it has returned -1.
C1_FailedInstallShortCircuits ==
    (InDeploy /\ returncode > 0) =>
        /\ ~Polling
        /\ fetch_calls = 0 /\ sleep_calls = 0
        /\ Ended => (pc = "returned" /\ exit_code = "-1")

C1_Witness ==
    InDeploy /\ returncode = 1 /\ pc = "returned" /\ exit_code = "-1" /\ helm_install_calls = 1

\* C2 (as claimed): the existence probe and the install/upgrade command are
\* only issued once no required agreement is pending.
C2_AgreementsResolvedBeforeInstall ==
    (InDeploy /\ (helm_list_calls > 0 \/ helm_install_calls > 0)) => Pending = {}

\* C3 (as claimed): a deploy of a Helm listing for which a required agreement
\* is not accepted and the user answers "no" ends with the rejection raised
\* and has made no existence probe, no install/upgrade and no pod fetch.
C3_RejectionStopsDeploy ==
    (InDeploy /\ is_helm /\ Ended /\ \E a \in Pending : ~answer[a]) =>
        /\ pc = "raised" /\ raised = "Exception"
        /\ helm_list_calls = 0 /\ helm_install_calls = 0 /\ fetch_calls = 0

\* C4 (as claimed): when a deploy has ended, by return or by exception, the
\* override values file it wrote no longer exists.
C4_TempFileRemovedOnEveryExit ==
    (InDeploy /\ Ended) => ~temp_file

\* how a poll that has ended ended, read off the last request alone
PollEnd ==
    IF fetched = "error" THEN "PROBE_FAILED"
    ELSE IF fetched = "pod" /\ HasReadyTrue(pod) THEN "READY"
    ELSE IF fetched = "pod" /\ ~pod.conditions_is_none THEN "TIMED_OUT"
    ELSE "OTHER"

\* C5 (as claimed): after an install/upgrade that exited 0, a deploy whose
\* poll ended READY, TIMED_OUT or PROBE_FAILED has returned (not raised), 0
\* exactly for READY and -1 for the other two.
C5_PollOutcomeMapsToExitCode ==
    (InDeploy /\ returncode = 0 /\ Ended /\ PollEnd \in {"READY", "TIMED_OUT", "PROBE_FAILED"}) =>
        /\ pc = "returned"
        /\ exit_code = IF PollEnd = "READY" THEN "0" ELSE "-1"

\* C6: the poll always ends, and the time slept never exceeds
\* timeout + interval, whatever the requests return.
C6_PollTerminatesWithinBound ==
    /\ [](InDeploy => elapsed <= timeout_seconds + sleep_time)
    /\ (Polling ~> (InDeploy /\ Ended))

C6_Witness ==
    InDeploy /\ Ended /\ fetch_calls > 1 /\ elapsed = timeout_seconds /\ exit_code = "-1"

\* C7: a pod that is ready at the first request makes the poll return 0 at
\* once: one request, no sleep, less than one interval elapsed.
C7_ReadyOnFirstTick ==
    (InDeploy /\ fetch_calls = 1 /\ fetched = "pod" /\ HasReadyTrue(pod)) =>
        /\ pc = "returned" /\ exit_code = "0"
        /\ sleep_calls = 0
        /\ elapsed < sleep_time

C7_Witness ==
    InDeploy /\ fetch_calls = 1 /\ fetched = "pod" /\ HasReadyTrue(pod) /\ pc = "returned"

\* C8 (as claimed): a poll whose every request succeeded with a pod that does
\* not satisfy the readiness predicate ends in TIMED_OUT: it returns -1, does
\* not raise, and elapsed >= timeout at that point.  (Such a poll can only end
\* on a request that returned a pod that is not ready.)
C8_NeverReadyTimesOut ==
    (InDeploy /\ Ended /\ fetched = "pod" /\ ~HasReadyTrue(pod)) =>
        /\ pc = "returned" /\ exit_code = "-1"
        /\ elapsed >= timeout_seconds

\* C9 (as claimed): a request that succeeds with no matching pod leaves the
\* poll polling (about to sleep) or, past the deadline, timed out; it never
\* ends the poll with an error.
C9_EmptyResultKeepsPolling ==
    (InDeploy /\ fetched = "empty") =>
        /\ raised = "none"
        /\ \/ pc = "sleep"
           \/ pc = "returned" /\ exit_code = "-1" /\ elapsed >= timeout_seconds

\* C10: a failed request ends the poll on the spot with the request's
\* exception, and that run makes no further request and no sleep.
C10_FailedFetchIsTerminal ==
    /\ []((InDeploy /\ fetched = "error") => (pc = "raised" /\ raised = "ApiException"))
    /\ [][(InDeploy /\ fetched = "error" /\ runs' = runs) =>
              (fetch_calls' = fetch_calls /\ sleep_calls' = sleep_calls)]_vars

C10_Witness ==
    InDeploy /\ fetched = "error" /\ pc = "raised" /\ elapsed = 2 * sleep_time /\ fetch_calls = 3

\* the release name is one of the rows helm list printed (exact comparison)
NameListed ==
    \E i \in 2..Len(helm_list.stdout) : helm_list.stdout[i] = helm_app_name

\* C11 (as claimed): once helm list has exited 0 the probe has answered without
\* raising (the verb is chosen), with "not found" for an empty output, and
\* "found" exactly when a row's NAME is the queried name.
C11_ExistsAnswersFromTable ==
    (InDeploy /\ helm_list.returncode = 0) =>
        /\ installation_type # "unset"
        /\ installation_type = "upgrade" <=> NameListed

\* C12: the install/upgrade command is issued only after the probe of the same
\* call has answered, with the verb the probe's answer gives: upgrade when the
\* release name was listed, install when it was not.
C12_VerbFollowsProbe ==
    (InDeploy /\ (pc = "helm_cmd" \/ helm_install_calls > 0)) =>
        /\ helm_list_calls = 1 /\ helm_list.returncode = 0
        /\ installation_type = IF NameListed THEN "upgrade" ELSE "install"

C12_Witness ==
    /\ InDeploy /\ helm_install_calls = 1 /\ installation_type = "upgrade"
    /\ helm_list.stdout = <<"NAME", "Demo", "demo">>

InGate == op = "gate"
Required == {agreement_summaries[i] : i \in DOMAIN agreement_summaries}
Confirms == SelectSeq(calls, LAMBDA c : c.call = "confirm")
Records == SelectSeq(calls, LAMBDA c : c.call = "record")

\* C13: when the ids accepted at the start of the walk cover every required
\* agreement, the walk opens nothing, asks nothing, records nothing and does
\* not fail.
C13_AllAcceptedNoInteraction ==
    (InGate /\ Required \subseteq accepted_agreement_ids) =>
        /\ calls = <<>>
        /\ pc \in {"agreement", "returned"} /\ raised = "none"

C13_Witness ==
    /\ InGate /\ pc = "returned" /\ Len(agreement_summaries) = 2
    /\ Required \subseteq accepted_agreement_ids /\ calls = <<>>

\* the confirmations the walk owes: one per list entry whose id was not
\* accepted at the start, in list order, up to and including the first "no"
RECURSIVE OwedConfirmations(_, _)
OwedConfirmations(required, acc) ==
    IF required = <<>> THEN <<>>
    ELSE IF Head(required) \in acc THEN OwedConfirmations(Tail(required), acc)
    ELSE IF ~answer[Head(required)] THEN <<Head(required)>>
    ELSE <<Head(required)>> \o OwedConfirmations(Tail(required), acc)

IsPrefix(a, b) == Len(a) <= Len(b) /\ \A i \in DOMAIN a : a[i] = b[i]
Ids(log) == [i \in DOMAIN log |-> log[i].agreement_id]

\* C14: the walk confirms exactly the owed agreements, once each and in list
\* order, and a "no" is the last call of the walk: nothing is recorded for the
\* rejected agreement and nothing is asked or recorded for a later one.
C14_OneConfirmationEachStopAtFirstNo ==
    InGate =>
        /\ IsPrefix(Ids(Confirms), OwedConfirmations(agreement_summaries, accepted_agreement_ids))
        /\ Ended => Ids(Confirms) = OwedConfirmations(agreement_summaries, accepted_agreement_ids)
        /\ \A i \in DOMAIN calls :
              (calls[i].call = "confirm" /\ ~calls[i].answer) => (i = Len(calls) /\ pc = "raised")
        /\ Ids(Records) = Ids(SelectSeq(Confirms, LAMBDA c : c.answer))

C14_Witness ==
    /\ InGate /\ pc = "raised" /\ agreement_summaries = <<"agr1", "agr2">>
    /\ Ids(Confirms) = <<"agr1", "agr2">> /\ Ids(Records) = <<"agr1">>

\* C15: every recording call carries the agreement's id and signature and the
\* listing id, compartment id and package version of the walk, and comes right
\* after a "yes" for the same agreement; the accepted set changes only in a
\* step that makes such a call for the agreement added, and that step moves
\* the walk on to the next list entry.
C15_RecordedOnlyAfterYes ==
    /\ [](\A i \in DOMAIN calls :
            calls[i].call = "record" =>
               /\ i > 1 /\ calls[i-1].call = "confirm" /\ calls[i-1].answer
               /\ calls[i-1].agreement_id = calls[i].agreement_id
               /\ calls[i].signature = signature[calls[i].agreement_id]
               /\ calls[i].listing_id = listing_id
               /\ calls[i].compartment_id = compartment_id
               /\ calls[i].package_version = package_version)
    /\ [][accepted_agreements' # accepted_agreements =>
             /\ Len(calls') = Len(calls) + 3
             /\ calls'[Len(calls')].call = "record"
             /\ accepted_agreements' = accepted_agreements \cup {calls'[Len(calls')].agreement_id}
             /\ calls'[Len(calls')].agreement_id = agreement_summaries[idx]
             /\ idx' = idx + 1 /\ pc' = "agreement"]_vars

C15_Witness ==
    /\ InGate /\ pc = "agreement" /\ idx = 2 /\ Len(agreement_summaries) = 2
    /\ Len(calls) = 3 /\ calls[3].call = "record" /\ calls[3].agreement_id \in accepted_agreements

\* C16: once run() has dealt with the value _run_with_python returned, it has
\* raised RuntimeError exactly when that value is not 0 (-1 or None), and has
\* returned normally only for 0.
C16_NonZeroExitIsFatal ==
    (InDeploy /\ run_result # "unset") =>
        /\ pc = "returned"
        /\ run_result = "RuntimeError" <=> exit_code \in {"-1", "None"}
        /\ run_result = "returned" <=> exit_code = "0"

C16_Witness ==
    InDeploy /\ run_result = "RuntimeError" /\ exit_code = "None"

\* scenario A at the third request: release not listed, install exited 0,
\* the pod satisfies the readiness predicate for the first time
ScenarioA ==
    /\ InDeploy /\ helm_list.returncode = 0 /\ helm_list.stdout # <<>> /\ ~NameListed
    /\ returncode = 0
    /\ fetch_calls = 3 /\ fetched = "pod" /\ HasReadyTrue(pod)

\* C17 (as claimed): in scenario A the verb is install, deploy returns 0 and
\* the poller's elapsed time at return lies between 60 and 80 seconds.
C17_ScenarioA_60to80 ==
    ScenarioA =>
        /\ installation_type = "install"
        /\ pc = "returned" /\ exit_code = "0"
        /\ elapsed >= 3 * sleep_time /\ elapsed <= 4 * sleep_time

\* C17 (amended): in scenario A the verb is install, deploy returns 0 and the
\* poller has slept exactly twice before the third request: counting the
\* sleeps, its elapsed time at return is two intervals, 40 seconds.
C17_ScenarioA_TwoIntervals ==
    ScenarioA =>
        /\ installation_type = "install"
        /\ pc = "returned" /\ exit_code = "0"
        /\ sleep_calls = 2 /\ elapsed = 2 * sleep_time

C17_Witness ==
    ScenarioA /\ pc = "returned" /\ exit_code = "0" /\ installation_type = "install"

\* C18 (as claimed): the tick reads a pod as ready only if its condition list
\* has a Ready entry with status True, and a pod without such an entry (an
\* empty or missing condition list included) as not ready, without an error.
C18_ReadinessPredicate ==
    (InDeploy /\ fetched = "pod") =>
        /\ (pc = "returned" /\ exit_code = "0") => HasReadyTrue(pod)
        /\ ~HasReadyTrue(pod) =>
              /\ raised = "none"
              /\ pc = "sleep" \/ (pc = "returned" /\ exit_code = "-1")

\* C19: what a tick does is fixed by the first pod of the fetch (and the
\* clock), whatever the other pods are: return 0 when the first pod is ready,
\* otherwise go on polling (or time out at the deadline).
C19_FirstPodDecides ==
    (InDeploy /\ fetched = "pod" /\ ~pod.conditions_is_none) =>
        IF HasReadyTrue(pod)
        THEN pc = "returned" /\ exit_code = "0"
        ELSE IF elapsed >= timeout_seconds
        THEN pc = "returned" /\ exit_code = "-1"
        ELSE pc = "sleep"

C19_Witness ==
    /\ InDeploy /\ fetched = "pod" /\ pc = "sleep"
    /\ ~pod.conditions_is_none /\ ~HasReadyTrue(pod) /\ HasReadyTrue(last_pod)

\* C20: the phases of a deploy follow one another: the command only after the
\* probe has answered, the first pod request only after the command has
\* exited (with 0), then request and sleep in turn, starting and ending with
\* a request; once the deploy has ended it makes no further call.
C20_PhasesSequential ==
    /\ [](InDeploy =>
            /\ helm_install_calls <= helm_list_calls /\ helm_list_calls <= 1
            /\ helm_install_calls > 0 => installation_type # "unset"
            /\ (Polling \/ fetch_calls > 0 \/ sleep_calls > 0) =>
                  (helm_install_calls = 1 /\ returncode = 0)
            /\ pc = "fetch" => fetch_calls = sleep_calls
            /\ pc = "sleep" => fetch_calls = sleep_calls + 1
            /\ (Ended /\ fetch_calls > 0) => fetch_calls = sleep_calls + 1)
    /\ [][(InDeploy /\ Ended /\ runs' = runs) =>
             /\ fetch_calls' = fetch_calls /\ sleep_calls' = sleep_calls
             /\ helm_list_calls' = helm_list_calls
             /\ helm_install_calls' = helm_install_calls]_vars

C20_Witness ==
    InDeploy /\ Ended /\ helm_list_calls = 1 /\ helm_install_calls = 1
        /\ fetch_calls = 3 /\ sleep_calls = 2

\* C21: a deploy issues the install/upgrade command at most once; when the
\* command exits non-zero nothing is raised, the command is not issued again
\* and the deploy, once ended, has returned -1.
C21_OneCommandNoRaiseNoRetry ==
    /\ [](InDeploy =>
            /\ helm_install_calls <= 1
            /\ returncode > 0 =>
                  /\ helm_install_calls = 1
                  /\ pc \in {"delete", "status", "returned"} /\ raised = "none"
                  /\ pc = "returned" => exit_code = "-1")
    /\ [][(InDeploy /\ runs' = runs /\ helm_install_calls' # helm_install_calls) =>
             (helm_install_calls = 0 /\ helm_install_calls' = 1 /\ returncode = -1)]_vars

C21_Witness ==
    /\ InDeploy /\ returncode = 1 /\ helm_install_calls = 1
    /\ pc = "returned" /\ exit_code = "-1" /\ run_result = "RuntimeError"

\* C24: a tick tests readiness before the deadline: a first pod that is ready
\* on a tick at which the deadline has passed makes the poll return 0, and a
\* poll returns -1 only on a tick whose request found the pod not ready.
C24_ReadinessBeforeDeadline ==
    /\ (InDeploy /\ fetched = "pod" /\ HasReadyTrue(pod) /\ elapsed >= timeout_seconds) =>
           (pc = "returned" /\ exit_code = "0")
    /\ (InDeploy /\ fetch_calls > 0 /\ pc = "returned" /\ exit_code = "-1") =>
           (fetched = "pod" /\ ~HasReadyTrue(pod))

C24_Witness ==
    /\ InDeploy /\ fetched = "pod" /\ HasReadyTrue(pod) /\ elapsed >= timeout_seconds
    /\ pc = "returned" /\ exit_code = "0"

\* ceil(a / b) for positive b
CeilDiv(a, b) == (a + b - 1) \div b

\* C25: with timeout 600 s and interval 20 s a poll makes at most
\* ceil(timeout / interval) + 1 = 31 requests, and a poll that returns -1 has
\* made exactly 31 requests and 30 sleeps.
C25_FetchCount ==
    InDeploy =>
        /\ timeout_seconds = 600 /\ sleep_time = 20
        /\ fetch_calls <= CeilDiv(timeout_seconds, sleep_time) + 1
        /\ CeilDiv(timeout_seconds, sleep_time) + 1 = 31
        /\ (fetch_calls > 0 /\ pc = "returned" /\ exit_code = "-1") =>
              (fetch_calls = 31 /\ sleep_calls = 30)

C25_Witness ==
    /\ InDeploy /\ pc = "returned" /\ exit_code = "-1"
    /\ fetch_calls = 31 /\ sleep_calls = 30 /\ ~HasReadyTrue(pod)

\* C26: once the install/upgrade command has returned and the deploy has
\* gone past line 311, the override values file is gone: the poller is never
\* entered, and no pod is ever requested, while the file exists.
C26_FileRemovedBeforePoll ==
    (InDeploy /\ (Polling \/ pc = "status" \/ fetch_calls > 0 \/ (returncode >= 0 /\ Ended))) =>
        ~temp_file

C26_Witness ==
    InDeploy /\ pc = "fetch" /\ fetch_calls = 1 /\ sleep_calls = 1 /\ returncode = 0 /\ ~temp_file

C23_ArgvInOrder ==
    helm_cmd # <<>> =>
        /\ Len(helm_cmd) = 4 + 2 * Len(kwargs)
        /\ SubSeq(helm_cmd, 1, 4) = <<"helm", installation_type, helm_app_name, chart>>
        /\ \A i \in DOMAIN kwargs :
              /\ helm_cmd[4 + 2 * i - 1] = "--" \o kwargs[i][1]
              /\ helm_cmd[4 + 2 * i] = kwargs[i][2]

C23_Witness ==
    /\ kwargs = run_helm_install_kwargs
    /\ helm_cmd = <<"helm", "upgrade", "demo", chart, "--version", "1.0.0",
                    "--namespace", "ns1", "--values", "values.yaml">>

\* the ids the walk has recorded so far
RecordedIds == {Records[i].agreement_id : i \in DOMAIN Records}

\* C27: no step takes an agreement out of the accepted set, and after a walk
\* that failed on a "no" every agreement it recorded before is still accepted,
\* next to those accepted when it started.
C27_AcceptancesSurviveRejection ==
    /\ []((InGate /\ pc = "raised") =>
             (RecordedIds \cup accepted_agreement_ids) \subseteq accepted_agreements)
    /\ [][accepted_agreements \subseteq accepted_agreements']_vars

C27_Witness ==
    /\ InGate /\ pc = "raised" /\ raised = "Exception"
    /\ RecordedIds = {"agr1"} /\ "agr1" \notin accepted_agreement_ids
    /\ "agr1" \in accepted_agreements

\* how often the walk made a call of one kind for one agreement
CallCount(kind, id) ==
    Cardinality({i \in DOMAIN calls : calls[i].call = kind /\ calls[i].agreement_id = id})

\* C28 (as claimed): one walk asks for confirmation of an agreement at most
\* once and records it at most once, also when the list of required
\* agreements names it more than once.
C28_AtMostOncePerAgreement ==
    InGate => \A id \in AgreementIds :
        CallCount("confirm", id) <= 1 /\ CallCount("record", id) <= 1

\* C29: a deploy whose helm list exited non-zero goes no further: it issues
\* no install/upgrade command, requests no pod, and has ended by an
\* exception, so neither _run_with_python nor run() reports success.
C29_FailedListingStopsRun ==
    (InDeploy /\ helm_list.returncode > 0) =>
        /\ helm_install_calls = 0 /\ helm_cmd = <<>> /\ returncode = -1
        /\ ~Polling /\ fetch_calls = 0 /\ sleep_calls = 0
        /\ pc = "raised" /\ raised # "none"
        /\ exit_code # "0" /\ run_result # "returned"

C29_Witness ==
    /\ InDeploy /\ helm_list.returncode = 1 /\ helm_list_calls = 1
    /\ pc = "raised" /\ raised = "TypeError" /\ helm_install_calls = 0

====
